---------------------------- MODULE Spec2Model ----------------------------
(***************************************************************************)
(* A model of three parts of autopush-rs:                                  *)
(*                                                                         *)
(*  - the connection dispatcher, autopush/src/server/dispatch.rs: the      *)
(*    Dispatch future that buffers the first bytes of an accepted socket,  *)
(*    parses them as an HTTP request head and classifies the connection;   *)
(*  - the endpoint's Notification, autoendpoint/src/extractors/            *)
(*    notification.rs: its construction from a request, its message id,    *)
(*    its delivery view and its storage record;                            *)
(*  - the endpoint's errors, autoendpoint/src/error.rs: the status, the    *)
(*    error number and the reporting of an ApiErrorKind.                   *)
(*                                                                         *)
(* A byte is a one-character string, or one of the names "CR", "LF",       *)
(* "TAB", "NUL" for the bytes 0x0D, 0x0A, 0x09, 0x00.                      *)
(***************************************************************************)
EXTENDS Integers, Sequences, FiniteSets, TLC

VARIABLES
    \* ---- the dispatcher's connection (dispatch.rs) ----
    stream,      \* the bytes the peer sends on this connection, in order
    trickle,     \* TRUE: the socket delivers one byte per read
    peerClosed,  \* the peer has closed: a read finds no byte and returns 0
    rx,          \* every byte read_buf has returned so far, in order
    data,        \* Dispatch.data, the BytesMut buffer
    cap,         \* the capacity of Dispatch.data
    socket,      \* Dispatch.socket: "Some" or "None" (taken)
    outcome,     \* "Buffering" (poll pending), "Classified", "Failed"
    kind,        \* the RequestType of Ok(..), or "None"
    reason,      \* the failure, or "None"
    delivered,   \* the WebpushIo values handed downstream, in order
    eofRead,     \* a read_buf of this connection has returned 0
    dropped,     \* the Dispatch future was dropped before completing
    nread,       \* the reads of the last poll that returned bytes
    parsed,      \* what each parse of the last poll returned, in order
    \* ---- the endpoint's notifications (notification.rs) ----
    clock,       \* the wall clock, in milliseconds since the epoch
    keys,        \* app_state.fernet: the keys, the active one first
    rng,         \* the randomness already drawn for initialisation vectors
    notifs,      \* the Notifications from_request has built, in order
    issued,      \* for each of them, the request and the keys at that time
    metrics,     \* the counters from_request has incremented
    \* ---- the endpoint's errors (error.rs) ----
    errors       \* what was made of the ApiErrors raised so far, in order

dvars == <<stream, trickle, peerClosed, rx, data, cap, socket, outcome,
           kind, reason, delivered, eofRead, dropped, nread, parsed>>

nvars == <<clock, keys, rng, notifs, issued, metrics>>

evars == <<errors>>

None == "None"

-----------------------------------------------------------------------------
(* Bounds of the model *)

\* the most bytes one read_buf returns in the model
MaxChunk == 2
\* the most reads that find bytes within one call of poll
MaxReadsPerPoll == 2

(* Program constants *)

\* self.data.reserve(16)
ReserveStep == 16
\* [httparse::EMPTY_HEADER; 32]
MaxHeaders == 32

-----------------------------------------------------------------------------
(* Bytes and byte strings *)

Letters == {"a", "b", "c", "d", "e", "f", "g", "h", "i", "k", "l", "n", "o",
            "p", "r", "s", "t", "u", "v", "w", "x", "z",
            "G", "E", "T", "H", "P", "U"}
Digits == {"0", "1", "2"}

\* httparse is_token: the tchar of RFC 7230
TokenBytes == Letters \cup Digits \cup {"_", "-", "."}
\* httparse is_uri_token: visible ASCII but the space
UriBytes == TokenBytes \cup {"/", ":", "?"}
\* httparse is_header_name_token
HeaderNameBytes == TokenBytes
\* httparse is_header_value_token: visible ASCII, space and tab
HeaderValueBytes == UriBytes \cup {" ", "TAB"}

SP == <<" ">>
CRLF == <<"CR", "LF">>
LF == <<"LF">>
GET == <<"G", "E", "T">>
HTTP1 == <<"H", "T", "T", "P", "/", "1", ".">>
HTTP11 == HTTP1 \o <<"1">>
HTTP20 == <<"H", "T", "T", "P", "/", "2", ".", "0">>

Upgrade == <<"U", "p", "g", "r", "a", "d", "e">>
upgrade == <<"u", "p", "g", "r", "a", "d", "e">>
Host == <<"H", "o", "s", "t">>

P_status == <<"/", "s", "t", "a", "t", "u", "s">>
P_heartbeat == <<"/", "_", "_", "h", "e", "a", "r", "t", "b", "e", "a", "t", "_", "_">>
P_lbheartbeat == <<"/", "_", "_", "l", "b", "h", "e", "a", "r", "t", "b", "e", "a", "t", "_", "_">>
P_version == <<"/", "_", "_", "v", "e", "r", "s", "i", "o", "n", "_", "_">>
P_errcrit == <<"/", "v", "1", "/", "e", "r", "r", "/", "c", "r", "i", "t">>
P_error == <<"/", "_", "_", "e", "r", "r", "o", "r", "_", "_">>
P_foo == <<"/", "f", "o", "o">>
P_ws == <<"/">>

\* s.starts_with(p)
StartsWith(s, p) == Len(s) >= Len(p) /\ SubSeq(s, 1, Len(p)) = p


Min(a, b) == IF a <= b THEN a ELSE b

\* the element of a singleton set: The({e(x) : x \in {v}}) is e(v), with v
\* evaluated once
The(S) == CHOOSE x \in S : TRUE

-----------------------------------------------------------------------------
(* httparse::Request::parse, as the single pass over the bytes that it is: *)
(* the parser's position in the grammar after each byte.                   *)

PsInit == [phase |-> "lead", k |-> 0, path |-> <<>>, name |-> <<>>,
           names |-> <<>>, err |-> None]

PsErr(ps, e) == [ps EXCEPT !.phase = "error", !.err = e]

\* the header whose value just ended is stored in the next free slot
PsHeaderDone(ps) ==
    [ps EXCEPT !.phase = "hstart", !.names = Append(ps.names, ps.name),
               !.name = <<>>]

ParseStep(ps, b) ==
    CASE ps.phase = "lead" ->       \* skip_empty_lines, then the method's first byte
           IF b = "CR" THEN [ps EXCEPT !.phase = "leadcr"]
           ELSE IF b = "LF" THEN ps
           ELSE IF b \in TokenBytes THEN [ps EXCEPT !.phase = "method"]
           ELSE PsErr(ps, "Token")
      [] ps.phase = "leadcr" ->
           IF b = "LF" THEN [ps EXCEPT !.phase = "lead"] ELSE PsErr(ps, "NewLine")
      [] ps.phase = "method" ->     \* parse_token
           IF b = " " THEN [ps EXCEPT !.phase = "uri0"]
           ELSE IF b \in TokenBytes THEN ps
           ELSE PsErr(ps, "Token")
      [] ps.phase = "uri0" ->       \* parse_uri, first byte
           IF b \in UriBytes THEN [ps EXCEPT !.phase = "uri", !.path = <<b>>]
           ELSE PsErr(ps, "Token")
      [] ps.phase = "uri" ->
           IF b = " " THEN [ps EXCEPT !.phase = "version", !.k = 0]
           ELSE IF b \in UriBytes THEN [ps EXCEPT !.path = Append(ps.path, b)]
           ELSE PsErr(ps, "Token")
      [] ps.phase = "version" ->    \* parse_version: HTTP/1.0 or HTTP/1.1
           IF ps.k < Len(HTTP1)
           THEN IF b = HTTP1[ps.k + 1] THEN [ps EXCEPT !.k = ps.k + 1]
                ELSE PsErr(ps, "Version")
           ELSE IF b \in {"0", "1"} THEN [ps EXCEPT !.phase = "vnl"]
                ELSE PsErr(ps, "Version")
      [] ps.phase = "vnl" ->        \* newline!
           IF b = "CR" THEN [ps EXCEPT !.phase = "vnlcr"]
           ELSE IF b = "LF" THEN [ps EXCEPT !.phase = "hstart"]
           ELSE PsErr(ps, "NewLine")
      [] ps.phase = "vnlcr" ->
           IF b = "LF" THEN [ps EXCEPT !.phase = "hstart"] ELSE PsErr(ps, "NewLine")
      [] ps.phase = "hstart" ->     \* parse_headers_iter, at the start of a line
           IF b = "CR" THEN [ps EXCEPT !.phase = "endcr"]
           ELSE IF b = "LF" THEN [ps EXCEPT !.phase = "done"]
           ELSE IF b \notin HeaderNameBytes THEN PsErr(ps, "HeaderName")
           ELSE IF Len(ps.names) >= MaxHeaders THEN PsErr(ps, "TooManyHeaders")
           ELSE [ps EXCEPT !.phase = "hname", !.name = <<b>>]
      [] ps.phase = "endcr" ->
           IF b = "LF" THEN [ps EXCEPT !.phase = "done"] ELSE PsErr(ps, "NewLine")
      [] ps.phase = "hname" ->
           IF b \in HeaderNameBytes THEN [ps EXCEPT !.name = Append(ps.name, b)]
           ELSE IF b = ":" THEN [ps EXCEPT !.phase = "hsp"]
           ELSE PsErr(ps, "HeaderName")
      [] ps.phase = "hsp" ->        \* white space between the colon and the value
           IF b \in {" ", "TAB"} THEN ps
           ELSE IF b \in HeaderValueBytes THEN [ps EXCEPT !.phase = "hvalue"]
           ELSE IF b = "CR" THEN [ps EXCEPT !.phase = "hvcr"]
           ELSE IF b = "LF" THEN PsHeaderDone(ps)
           ELSE PsErr(ps, "HeaderValue")
      [] ps.phase = "hvalue" ->
           IF b \in HeaderValueBytes THEN ps
           ELSE IF b = "CR" THEN [ps EXCEPT !.phase = "hvcr"]
           ELSE IF b = "LF" THEN PsHeaderDone(ps)
           ELSE PsErr(ps, "HeaderValue")
      [] ps.phase = "hvcr" ->
           IF b = "LF" THEN PsHeaderDone(ps) ELSE PsErr(ps, "HeaderValue")
      [] OTHER -> ps                \* "done", "error": the parse has ended

\* a variant of the parser that takes a byte after the head as an error
RECURSIVE ParseRangeNoTrailing(_, _, _, _)
ParseRangeNoTrailing(ps, buf, lo, hi) ==
    IF lo > hi THEN ps
    ELSE IF lo = hi
    THEN IF ps.phase = "done" THEN PsErr(ps, "Token") ELSE ParseStep(ps, buf[lo])
    ELSE The({ ParseRangeNoTrailing(q, buf, (lo + hi) \div 2 + 1, hi)
               : q \in {ParseRangeNoTrailing(ps, buf, lo, (lo + hi) \div 2)} })

\* the parser over the bytes lo..hi of buf, one half after the other
RECURSIVE ParseRange(_, _, _, _)
ParseRange(ps, buf, lo, hi) ==
    IF lo > hi THEN ps
    ELSE IF lo = hi THEN ParseStep(ps, buf[lo])
    ELSE The({ ParseRange(q, buf, (lo + hi) \div 2 + 1, hi)
               : q \in {ParseRange(ps, buf, lo, (lo + hi) \div 2)} })

\* the parser over buf from its i-th byte on
ParseFrom(ps, buf, i) == ParseRange(ps, buf, i, Len(buf))

\* req.parse(&self.data): the status, and on Complete the path and the
\* header names of the request
Parse(buf) ==
    LET ps == ParseFrom(PsInit, buf, 1) IN
    IF ps.phase = "done"
    THEN [status |-> "Complete", path |-> ps.path, headers |-> ps.names]
    ELSE IF ps.phase = "error"
    THEN [status |-> "Error", path |-> None, headers |-> <<>>]
    ELSE [status |-> "Partial", path |-> None, headers |-> <<>>]

-----------------------------------------------------------------------------
(* Dispatch::poll *)

RequestType == {"Websocket", "Status", "LogCheck", "LBHeartBeat", "Version"}

\* a variant of ClassifyPath with the results of two arms exchanged
ClassifyPathSwapped(path) ==
    IF path # None /\ (StartsWith(path, P_status) \/ path = P_heartbeat)
    THEN "Status"
    ELSE IF path # None /\ path = P_lbheartbeat THEN "Version"
    ELSE IF path # None /\ path = P_version THEN "LBHeartBeat"
    ELSE IF path # None /\ StartsWith(path, P_errcrit) THEN "LogCheck"
    ELSE IF path # None /\ path = P_error THEN "LogCheck"
    ELSE "Unknown"

\* the match on req.path; "Unknown" is the arm that returns the
\* "unknown http request" error
ClassifyPath(path) ==
    IF path # None /\ (StartsWith(path, P_status) \/ path = P_heartbeat)
    THEN "Status"
    ELSE IF path # None /\ path = P_lbheartbeat THEN "LBHeartBeat"
    ELSE IF path # None /\ path = P_version THEN "Version"
    ELSE IF path # None /\ StartsWith(path, P_errcrit) THEN "LogCheck"
    ELSE IF path # None /\ path = P_error THEN "LogCheck"
    ELSE "Unknown"

\* a variant of Classify that looks at the path before the headers
ClassifyPathFirst(req) ==
    IF ClassifyPath(req.path) # "Unknown" THEN ClassifyPath(req.path)
    ELSE IF \E i \in 1..Len(req.headers) : req.headers[i] = Upgrade
    THEN "Websocket"
    ELSE "Unknown"

\* the block that computes ty from a complete request
Classify(req) ==
    IF \E i \in 1..Len(req.headers) : req.headers[i] = Upgrade
    THEN "Websocket"
    ELSE ClassifyPath(req.path)

\* a variant of Reserve that never grows the buffer
ReserveNever(d, c) == c

\* if self.data.len() == self.data.capacity() { self.data.reserve(16) }
Reserve(d, c) == IF Len(d) = c THEN Len(d) + ReserveStep ELSE c

\* read_buf: the bytes read are appended to the buffer
ReadBuf(d, bytes) == d \o bytes

\* the length of the request head that starts s: the bytes the parser
\* needs to find it complete
HeadLen(s) ==
    CHOOSE n \in 0..Len(s) :
        /\ Parse(SubSeq(s, 1, n)).status = "Complete"
        /\ \A m \in 0..(n - 1) : Parse(SubSeq(s, 1, m)).status # "Complete"

\* a variant of TakeData that hands over the parsed head only
TakeHeadOnly(d) == SubSeq(d, 1, HeadLen(d))

\* self.data.take(): the whole buffer goes into the WebpushIo
TakeData(d) == d

\* a variant of EarlyEof that goes on as if nothing had been read yet
EarlyEofIgnored(s) == s

\* return Err(GeneralError("early eof")): the read returned 0
EarlyEof(s) == [s EXCEPT !.outcome = "Failed", !.reason = "EarlyEof"]

\* a variant of ParseError that goes on reading
ParseErrorIgnored(s) == s

\* req.parse(&self.data)? : the parse error is returned
ParseError(s) == [s EXCEPT !.outcome = "Failed", !.reason = "ParseError"]

\* let tcp = self.socket.take().unwrap();
\* return Ok((WebpushIo::new(tcp, self.data.take()), ty).into())
HandOff(s, ty) ==
    [s EXCEPT !.outcome = "Classified", !.kind = ty, !.socket = None,
              !.data = <<>>, !.cap = 0,
              !.delivered = Append(s.delivered,
                                   [bytes |-> TakeData(s.data), ty |-> ty])]

\* a variant of UnknownRequest that answers an unknown request as a status
\* request
UnknownRequestAsStatus(s) == HandOff(s, "Status")

\* return Err(GeneralError("unknown http request"))
UnknownRequest(s) == [s EXCEPT !.outcome = "Failed", !.reason = "UnknownRequest"]

\* a variant of AfterRead that parses only a buffer of even length
AfterReadEveryOther(s) ==
    IF Len(s.data) % 2 = 1 THEN s
    ELSE The({ The({ IF req.status = "Error" THEN ParseError(p)
                     ELSE IF req.status = "Partial" THEN p
                     ELSE IF Classify(req) = "Unknown" THEN UnknownRequest(p)
                     ELSE HandOff(p, Classify(req))
                     : p \in {[s EXCEPT !.parsed = Append(s.parsed, req.status)]} })
               : req \in {Parse(s.data)} })

\* what follows a read that returned bytes: the parse of the whole buffer
\* and, on a complete head, the classification.  "Partial" stands for the
\* continue of the loop.
AfterRead(s) ==
    The({ The({ IF req.status = "Error" THEN ParseError(p)
                ELSE IF req.status = "Partial" THEN p
                ELSE IF Classify(req) = "Unknown" THEN UnknownRequest(p)
                ELSE HandOff(p, Classify(req))
                : p \in {[s EXCEPT !.parsed = Append(s.parsed, req.status)]} })
          : req \in {Parse(s.data)} })

\* the reserve and the read_buf of one turn of the loop, with avail bytes
\* ready on the socket: read_buf returns at most the room left in the
\* buffer, and 0 when there is none
ReadStep(s, avail) ==
    LET c == Reserve(s.data, s.cap)
        n == Min(avail, c - Len(s.data))
        bytes == SubSeq(stream, Len(s.rx) + 1, Len(s.rx) + n)
    IN  IF avail > Len(stream) - Len(s.rx) THEN [s EXCEPT !.valid = FALSE]
        ELSE [s EXCEPT !.cap = c, !.data = ReadBuf(s.data, bytes),
                       !.rx = s.rx \o bytes, !.used = s.used + 1,
                       !.eofRead = (n = 0),
                       !.nread = IF n = 0 THEN s.nread ELSE s.nread + 1]

\* One call of poll.  s holds the fields of the future and what it returned;
\* rs[i] is the number of bytes the socket has ready at the i-th read of this
\* call; after them the socket has nothing: a read returns 0 when the peer
\* has closed, and is not ready otherwise.
RECURSIVE PollLoop(_, _, _)
PollLoop(s, rs, closed) ==
    IF rs = <<>>
    THEN IF closed
         THEN EarlyEof([s EXCEPT !.cap = Reserve(s.data, s.cap), !.eofRead = TRUE])
         ELSE [s EXCEPT !.cap = Reserve(s.data, s.cap)]   \* NotReady: pending
    ELSE The({ IF ~s1.valid THEN s1
               ELSE IF s1.eofRead THEN EarlyEof(s1)
               ELSE The({ IF s2.outcome = "Buffering"
                          THEN PollLoop(s2, Tail(rs), closed)
                          ELSE s2 : s2 \in {AfterRead(s1)} })
               : s1 \in {ReadStep(s, Head(rs))} })

\* what the socket can have ready over one call of poll
ReadySeqs ==
    UNION { [1..k -> (IF trickle THEN {1} ELSE 1..MaxChunk)] :
            k \in 0..MaxReadsPerPoll }

Poll(rs) ==
    /\ outcome = "Buffering"
    /\ ~dropped
    /\ peerClosed => rs = <<>>
    /\ UNCHANGED <<stream, trickle, peerClosed, dropped>>
    /\ UNCHANGED <<nvars, evars>>
    /\ \E s \in {PollLoop([data |-> data, cap |-> cap, rx |-> rx,
                           outcome |-> outcome, kind |-> kind, reason |-> reason,
                           socket |-> socket, delivered |-> delivered,
                           eofRead |-> eofRead, nread |-> 0,
                           parsed |-> <<>>, used |-> 0, valid |-> TRUE],
                          rs, peerClosed)} :
          /\ s.valid
          /\ s.used = Len(rs)
          /\ data' = s.data
          /\ cap' = s.cap
          /\ rx' = s.rx
          /\ outcome' = s.outcome
          /\ kind' = s.kind
          /\ reason' = s.reason
          /\ socket' = s.socket
          /\ delivered' = s.delivered
          /\ eofRead' = s.eofRead
          /\ nread' = s.nread
          /\ parsed' = s.parsed

DoPoll == \E rs \in ReadySeqs : Poll(rs)

\* the peer closes its side once the bytes it sent have been read
PeerClose ==
    /\ ~peerClosed
    /\ outcome = "Buffering"
    /\ ~dropped
    /\ peerClosed' = TRUE
    /\ UNCHANGED <<stream, trickle, rx, data, cap, socket, outcome, kind,
                   reason, delivered, eofRead, dropped, nread, parsed>>
    /\ UNCHANGED <<nvars, evars>>

\* the connection goes away and the pending future is dropped
DropDispatch ==
    /\ outcome = "Buffering"
    /\ ~dropped
    /\ dropped' = TRUE
    /\ UNCHANGED <<stream, trickle, peerClosed, rx, data, cap, socket, outcome,
                   kind, reason, delivered, eofRead, nread, parsed>>
    /\ UNCHANGED <<nvars, evars>>

-----------------------------------------------------------------------------
(* The connections of the model: what a peer sends *)

Hdr(name, value) == name \o <<":", " ">> \o value \o CRLF

\* a request head with the given path and header lines, and the bytes that
\* follow it on the wire
Req(path, hdrs, extra) ==
    GET \o SP \o path \o SP \o HTTP11 \o CRLF \o hdrs \o CRLF \o extra

H_upgrade == Hdr(Upgrade, <<"w", "s">>)
H_lower == Hdr(upgrade, <<"w", "s">>)
H_host == Hdr(Host, <<"a">>)

\* well-formed request heads that carry an Upgrade header
UpgradeStreams ==
    { Req(P_ws, H_upgrade, <<>>),
      Req(P_status, H_host \o H_upgrade, <<>>),
      Req(P_lbheartbeat, H_upgrade, <<>>),
      Req(P_foo, H_upgrade \o H_host, <<"x", "z">>) }

\* well-formed request heads without one
PlainStreams ==
    { Req(p, <<>>, <<>>) :
        p \in {P_status, P_heartbeat, P_lbheartbeat, P_version, P_errcrit,
               P_error, P_foo, P_ws,
               P_status \o <<"z">>, P_heartbeat \o <<"x">>,
               P_errcrit \o <<"/", "x">>, P_version \o <<"?", "a">>} }
    \cup
    { Req(P_ws, H_lower, <<>>),
      Req(P_version, H_host, <<>>),
      Req(P_status, <<>>, <<"x", "z", "x">>),
      CRLF \o Req(P_error, <<>>, <<>>),
      GET \o SP \o P_lbheartbeat \o SP \o HTTP1 \o <<"0">> \o LF \o LF }

\* bytes that are no request head
BadStreams ==
    { GET \o SP \o P_status \o SP \o HTTP20 \o CRLF \o CRLF,
      GET \o SP \o P_foo \o SP \o HTTP11 \o CRLF \o <<"H", "o", " ", "s", "t">>,
      GET \o SP \o <<"/", "NUL", "a">>,
      <<"CR", "x">> }

\* n header lines, each the shortest there is
RECURSIVE ShortHeaders(_)
ShortHeaders(n) ==
    IF n = 0 THEN <<>> ELSE <<"a", ":", "LF">> \o ShortHeaders(n - 1)

\* request heads at the limit of the header array: one that fills its
\* MaxHeaders slots, and one with an Upgrade header and MaxHeaders more
HeaderLimitStreams ==
    { GET \o SP \o P_status \o SP \o HTTP11 \o LF
          \o ShortHeaders(MaxHeaders) \o LF,
      GET \o SP \o P_status \o SP \o HTTP11 \o LF \o Upgrade \o <<":">> \o LF
          \o ShortHeaders(MaxHeaders) \o LF }

Streams == UpgradeStreams \cup PlainStreams \cup BadStreams \cup HeaderLimitStreams

\* Dispatch::new(socket), for the connection of a peer that sends strm
DispatchNew(strm) ==
    /\ stream = strm
    /\ peerClosed = FALSE
    /\ rx = <<>>
    /\ data = <<>>        \* BytesMut::new()
    /\ cap = 0
    /\ socket = "Some"
    /\ outcome = "Buffering"
    /\ kind = None
    /\ reason = None
    /\ delivered = <<>>
    /\ eofRead = FALSE
    /\ dropped = FALSE
    /\ nread = 0
    /\ parsed = <<>>

-----------------------------------------------------------------------------
(* autopush_common::util *)

\* An Option is a sequence: empty for None, <<x>> for Some(x).
NoneV == <<>>
Some(x) == <<x>>

\* A Result is a record with the one field ok, or the one field err.
Ok(v) == [ok |-> v]
Err(e) == [err |-> e]
IsOk(r) == "ok" \in DOMAIN r

\* HashMap::new() and HashMap::insert.  A map is a function from its keys.
EmptyMap == [x \in {} |-> 0]
Insert(m, k, v) == [x \in DOMAIN m \cup {k} |-> IF x = k THEN v ELSE m[x]]

\* HashMap::insert_opt: insert an item only if it exists
InsertOpt(m, k, value) ==
    IF value # NoneV THEN Insert(m, k, value[1]) ELSE m

\* the 6-bit groups of 1, 2 or 3 bytes, as URL_SAFE_NO_PAD writes them
B64Group(g) ==
    LET b1 == g[1]
        b2 == IF Len(g) >= 2 THEN g[2] ELSE 0
        b3 == IF Len(g) >= 3 THEN g[3] ELSE 0
        all == <<b1 \div 4,
                 (b1 % 4) * 16 + b2 \div 16,
                 (b2 % 16) * 4 + b3 \div 64,
                 b3 % 64>>
    IN  SubSeq(all, 1, Len(g) + 1)

\* b64_encode_url: the text, each character given by its index in the
\* URL-safe alphabet
RECURSIVE B64EncodeUrl(_)
B64EncodeUrl(input) ==
    IF input = <<>> THEN <<>>
    ELSE LET n == Min(3, Len(input)) IN
         B64Group(SubSeq(input, 1, n))
             \o B64EncodeUrl(SubSeq(input, n + 1, Len(input)))

\* sec_since_epoch() and ms_since_epoch() at clock reading t
SecSinceEpoch(t) == t \div 1000
MsSinceEpoch(t) == t

-----------------------------------------------------------------------------
(* The token codec (fernet::MultiFernet) and MessageId, which              *)
(* generate_message_id calls                                               *)

\* the width of a user or channel identifier, and of the timestamp
IdBytes == 16
TsBytes == 8

RECURSIVE ToBytesBE(_, _)
ToBytesBE(n, w) ==
    IF w = 0 THEN <<>> ELSE Append(ToBytesBE(n \div 256, w - 1), n % 256)

RECURSIVE FromBytesBE(_)
FromBytesBE(bs) ==
    IF bs = <<>> THEN 0
    ELSE 256 * FromBytesBE(SubSeq(bs, 1, Len(bs) - 1)) + bs[Len(bs)]

WithTopic(uaid, channel_id, topic) ==
    [variant |-> "WithTopic", uaid |-> uaid, channel_id |-> channel_id,
     topic |-> topic]

WithoutTopic(uaid, channel_id, timestamp) ==
    [variant |-> "WithoutTopic", uaid |-> uaid, channel_id |-> channel_id,
     timestamp |-> timestamp]

\* the plaintext of a message id: the kind tag 01 or 02, the two
\* identifiers, then the topic or the millisecond timestamp
MessageIdPlain(mid) ==
    IF mid.variant = "WithTopic"
    THEN <<1>> \o mid.uaid \o mid.channel_id \o mid.topic
    ELSE <<2>> \o mid.uaid \o mid.channel_id \o ToBytesBE(mid.timestamp, TsBytes)

\* the parse of a decrypted message id
MessageIdParse(bs) ==
    IF Len(bs) < 1 + 2 * IdBytes THEN Err("InvalidMessageId")
    ELSE LET uaid == SubSeq(bs, 2, 1 + IdBytes)
             channel_id == SubSeq(bs, 2 + IdBytes, 1 + 2 * IdBytes)
             rest == SubSeq(bs, 2 + 2 * IdBytes, Len(bs))
         IN  IF bs[1] = 1 THEN Ok(WithTopic(uaid, channel_id, rest))
             ELSE IF bs[1] = 2 /\ Len(rest) = TsBytes
             THEN Ok(WithoutTopic(uaid, channel_id, FromBytesBE(rest)))
             ELSE Err("InvalidMessageId")

\* authenticated encryption, symbolically: a ciphertext opens and a tag
\* verifies under the key that made them, and under no other
Mac(key, iv, ct) == <<"hmac", key, iv, ct>>

\* MultiFernet::encrypt: under the active key, with a fresh iv
FernetEncrypt(fernet, plain) ==
    LET k == Head(fernet.keys)
        ct == [key |-> k, iv |-> fernet.iv, plain |-> plain]
    IN  [ts |-> fernet.now, iv |-> fernet.iv, ct |-> ct,
         mac |-> Mac(k, fernet.iv, ct)]

\* a variant of FernetDecrypt that tries the active key only
FernetDecryptActiveOnly(ks, token) ==
    IF ks # <<>> /\ token.mac = Mac(Head(ks), token.iv, token.ct)
    THEN Ok(token.ct.plain)
    ELSE Err("InvalidToken")

\* MultiFernet::decrypt: the keys in order, the first that authenticates
RECURSIVE FernetDecrypt(_, _)
FernetDecrypt(ks, token) ==
    IF ks = <<>> THEN Err("InvalidToken")
    ELSE IF token.mac = Mac(Head(ks), token.iv, token.ct)
    THEN Ok(token.ct.plain)
    ELSE FernetDecrypt(Tail(ks), token)

\* MessageId::encrypt
MessageIdEncrypt(mid, fernet) == FernetEncrypt(fernet, MessageIdPlain(mid))

\* MessageId::decrypt
MessageIdDecrypt(ks, token) ==
    LET plain == FernetDecrypt(ks, token) IN
    IF IsOk(plain) THEN MessageIdParse(plain.ok) ELSE plain

-----------------------------------------------------------------------------
(* Notification *)

\* a variant of generate_message_id with the two identifiers exchanged
GenerateMessageIdSwapped(fernet, uaid, channel_id, topic, timestamp) ==
    LET message_id ==
            IF topic # NoneV THEN WithTopic(channel_id, uaid, topic[1])
            ELSE WithoutTopic(channel_id, uaid, timestamp)
    IN  MessageIdEncrypt(message_id, fernet)

\* a variant of generate_message_id that addresses every message by its
\* timestamp
GenerateMessageIdNoTopic(fernet, uaid, channel_id, topic, timestamp) ==
    MessageIdEncrypt(WithoutTopic(uaid, channel_id, timestamp), fernet)

\* Notification::generate_message_id
GenerateMessageId(fernet, uaid, channel_id, topic, timestamp) ==
    LET message_id ==
            IF topic # NoneV THEN WithTopic(uaid, channel_id, topic[1])
            ELSE WithoutTopic(uaid, channel_id, timestamp)
    IN  MessageIdEncrypt(message_id, fernet)

\* NotificationHeaders::from_request: the headers of the request
HeadersFromRequest(req, has_data) ==
    [ttl |-> req.ttl, topic |-> req.topic, encoding |-> req.encoding,
     crypto_key |-> req.crypto_key]

\* From<NotificationHeaders> for HashMap<String, String>
HeadersMap(headers) ==
    InsertOpt(InsertOpt(EmptyMap, "encoding", headers.encoding),
              "crypto_key", headers.crypto_key)

\* the data of a notification: the body in base64, if there is one
BodyData(body) == IF body = <<>> THEN NoneV ELSE Some(B64EncodeUrl(body))

\* a variant of from_request that makes the message id from the timestamp
\* in seconds
FromRequestSecondsId(req, fernet, t1, t2) ==
    LET body_data == BodyData(req.body)
        headers == HeadersFromRequest(req, body_data # NoneV)
        timestamp == SecSinceEpoch(t1)
        sort_key_timestamp == MsSinceEpoch(t2)
        message_id == GenerateMessageId(fernet, req.subscription.uaid,
                                        req.subscription.channel_id,
                                        headers.topic, timestamp)
    IN  [message_id |-> message_id, subscription |-> req.subscription,
         headers |-> headers, timestamp |-> timestamp,
         sort_key_timestamp |-> sort_key_timestamp, data |-> body_data]

\* Notification::from_request, for a request whose subscription, body and
\* headers are accepted; t1 and t2 are the clock at its two readings
FromRequest(req, fernet, t1, t2) ==
    LET body_data == BodyData(req.body)
        headers == HeadersFromRequest(req, body_data # NoneV)
        timestamp == SecSinceEpoch(t1)
        sort_key_timestamp == MsSinceEpoch(t2)
        message_id == GenerateMessageId(fernet, req.subscription.uaid,
                                        req.subscription.channel_id,
                                        headers.topic, sort_key_timestamp)
    IN  [message_id |-> message_id, subscription |-> req.subscription,
         headers |-> headers, timestamp |-> timestamp,
         sort_key_timestamp |-> sort_key_timestamp, data |-> body_data]

\* the metric from_request counts: the encoding of an encrypted payload
EncodingMetric(n) ==
    IF n.headers.encoding # NoneV /\ n.data # NoneV
    THEN {n.headers.encoding[1]} ELSE {}

\* a variant of serialize_for_delivery that always inserts the headers
SerializeAlwaysHeaders(n) ==
    LET map == [x \in {"channelID", "version", "ttl", "topic", "timestamp"} |->
                  CASE x = "channelID" -> n.subscription.channel_id
                    [] x = "version" -> n.message_id
                    [] x = "ttl" -> n.headers.ttl
                    [] x = "topic" -> n.headers.topic
                    [] x = "timestamp" -> n.timestamp]
        with_headers == Insert(map, "headers", HeadersMap(n.headers))
    IN  IF n.data # NoneV THEN Insert(with_headers, "data", n.data[1])
        ELSE with_headers

\* Notification::serialize_for_delivery
SerializeForDelivery(n) ==
    LET map == [x \in {"channelID", "version", "ttl", "topic", "timestamp"} |->
                  CASE x = "channelID" -> n.subscription.channel_id
                    [] x = "version" -> n.message_id
                    [] x = "ttl" -> n.headers.ttl
                    [] x = "topic" -> n.headers.topic
                    [] x = "timestamp" -> n.timestamp]
    IN  IF n.data # NoneV
        THEN Insert(Insert(map, "data", n.data[1]),
                    "headers", HeadersMap(n.headers))
        ELSE map

\* the bits of an integer of the model, which stand for the 64 of the code
CastBits == 16

\* x as u64: the value modulo the width, which keeps what is not negative
AsU64(x) == x % (2 ^ CastBits)

\* a variant of the conversion that leaves out the headers of a
\* notification without data
ToStorageHeadersWithData(n) ==
    [channel_id |-> n.subscription.channel_id,
     version |-> n.message_id,
     ttl |-> AsU64(n.headers.ttl),
     topic |-> n.headers.topic,
     timestamp |-> n.timestamp,
     data |-> n.data,
     sortkey_timestamp |-> Some(n.sort_key_timestamp),
     headers |-> IF n.data = NoneV \/ DOMAIN HeadersMap(n.headers) = {}
                 THEN NoneV ELSE Some(HeadersMap(n.headers))]

\* From<Notification> for autopush_common::notification::Notification
ToStorage(n) ==
    [channel_id |-> n.subscription.channel_id,
     version |-> n.message_id,
     ttl |-> AsU64(n.headers.ttl),
     topic |-> n.headers.topic,
     timestamp |-> n.timestamp,
     data |-> n.data,
     sortkey_timestamp |-> Some(n.sort_key_timestamp),
     headers |-> LET headers == HeadersMap(n.headers) IN
                 IF DOMAIN headers = {} THEN NoneV ELSE Some(headers)]

-----------------------------------------------------------------------------
(* The requests of the model, the clock and the keys *)

\* the most notifications built in a run
MaxNotifs == 2
\* the most keys the key store ever supplies
MaxKeys == 2
\* the most milliseconds the clock advances in a run
MaxTicks == 1

\* the clock starts one millisecond before a second begins
ClockStart == 2 * 1000 - 1

Uaid1 == [i \in 1..IdBytes |-> i]
Chid1 == [i \in 1..IdBytes |-> 100 + i]
Chid2 == [i \in 1..IdBytes |-> 200 + i]
Sub1 == [uaid |-> Uaid1, channel_id |-> Chid1]
Sub2 == [uaid |-> Uaid1, channel_id |-> Chid2]

Topic1 == <<116, 49>>
Topic2 == <<58, 116>>
Body1 == <<104, 105>>
Body2 == <<1, 2, 255, 7>>

HttpReq(sub, topic, encoding, crypto_key, body) ==
    [subscription |-> sub, topic |-> topic, ttl |-> 60, encoding |-> encoding,
     crypto_key |-> crypto_key, body |-> body]

Requests ==
    { HttpReq(Sub1, NoneV, NoneV, NoneV, <<>>),
      HttpReq(Sub1, Some(Topic1), Some("aes128gcm"), NoneV, Body2),
      HttpReq(Sub1, Some(Topic1), Some("aes128gcm"), NoneV, <<>>),
      [HttpReq(Sub2, Some(Topic2), NoneV, NoneV, <<>>) EXCEPT !.ttl = 0],
      HttpReq(Sub2, NoneV, Some("aesgcm"), Some("dh"), Body1) }

NotifInit ==
    /\ clock = ClockStart
    /\ keys = <<1>>
    /\ rng = 0
    /\ notifs = <<>>
    /\ issued = <<>>
    /\ metrics = {}

\* the clock advances
Tick ==
    /\ clock < ClockStart + MaxTicks
    /\ clock' = clock + 1
    /\ UNCHANGED <<keys, rng, notifs, issued, metrics>>
    /\ UNCHANGED <<dvars, evars>>

\* a request is extracted into a Notification; the clock may advance by d
\* between the two times from_request reads it
BuildNotification(req, d) ==
    /\ Len(notifs) < MaxNotifs
    /\ clock + d <= ClockStart + MaxTicks
    /\ \E n \in {FromRequest(req,
                             [keys |-> keys, iv |-> rng + 1,
                              now |-> SecSinceEpoch(clock + d)],
                             clock, clock + d)} :
          /\ notifs' = Append(notifs, n)
          /\ issued' = Append(issued, [req |-> req, keys |-> keys])
          /\ metrics' = metrics \cup EncodingMetric(n)
    /\ rng' = rng + 1
    /\ clock' = clock + d
    /\ UNCHANGED keys
    /\ UNCHANGED <<dvars, evars>>

DoBuild == \E req \in Requests, d \in 0..1 : BuildNotification(req, d)

\* the key store supplies a new active key; the old one is kept as retired
RotateKey ==
    /\ Head(keys) < MaxKeys
    /\ keys' = <<Head(keys) + 1>> \o keys
    /\ UNCHANGED <<clock, rng, notifs, issued, metrics>>
    /\ UNCHANGED <<dvars, evars>>

\* the key store drops the oldest retired key
RemoveRetiredKey ==
    /\ Len(keys) > 1
    /\ keys' = SubSeq(keys, 1, Len(keys) - 1)
    /\ UNCHANGED <<clock, rng, notifs, issued, metrics>>
    /\ UNCHANGED <<dvars, evars>>

-----------------------------------------------------------------------------
(* The endpoint's errors (error.rs) *)

\* the most errors raised in a run
MaxErrors == 2

\* http::StatusCode
BAD_REQUEST == 400
UNAUTHORIZED == 401
NOT_FOUND == 404
GONE == 410
IM_A_TEAPOT == 418
INTERNAL_SERVER_ERROR == 500

\* what the error wrapped by a variant says of itself: its own status (of a
\* PayloadError or a RouterError), its own error number (of a RouterError or
\* of validation errors), whether it is RouterError::TooMuchData and whether
\* it is a payload overflow
NoInner ==
    [status |-> 0, errno |-> NoneV, too_much_data |-> FALSE, overflow |-> FALSE]

\* the variants of ApiErrorKind that delegate nothing to what they wrap
PlainKinds ==
    {"Io", "Metrics", "VapidError", "Jwt", "TokenHashValidation",
     "RegistrationSecretHash", "EndpointUrl", "Database", "InvalidToken",
     "NoUser", "NoSubscription", "InvalidEncryption", "InvalidApiVersion",
     "NoTTL", "InvalidRouterType", "InvalidRouterToken", "InvalidMessageId",
     "InvalidAuthentication", "InvalidLocalAuth", "General", "LogCheck"}

\* enum ApiErrorKind, with examples of the errors it wraps
ApiErrorKind ==
    [kind : PlainKinds, inner : {NoInner}]
    \cup [kind : {"Validation"},
          inner : {[NoInner EXCEPT !.errno = x] : x \in {NoneV, Some(101)}}]
    \cup [kind : {"PayloadError"},
          inner : {[NoInner EXCEPT !.status = x, !.overflow = o] :
                      x \in {400, 413}, o \in BOOLEAN}]
    \cup [kind : {"Router"},
          inner : {[NoInner EXCEPT !.status = 413, !.errno = Some(104),
                                   !.too_much_data = TRUE],
                   [NoInner EXCEPT !.status = 410, !.errno = Some(105)],
                   [NoInner EXCEPT !.status = 502]}]

\* a variant of status that answers a log check as a general error
StatusTeapotAsGeneral(e) ==
    CASE e.kind \in {"PayloadError", "Router"} -> e.inner.status
      [] e.kind \in {"Validation", "InvalidEncryption", "NoTTL",
                     "InvalidRouterType", "InvalidRouterToken",
                     "InvalidMessageId"} -> BAD_REQUEST
      [] e.kind \in {"VapidError", "Jwt", "TokenHashValidation",
                     "InvalidAuthentication", "InvalidLocalAuth"} -> UNAUTHORIZED
      [] e.kind \in {"InvalidToken", "InvalidApiVersion"} -> NOT_FOUND
      [] e.kind \in {"NoUser", "NoSubscription"} -> GONE
      [] e.kind \in {"LogCheck", "General", "Io", "Metrics", "Database",
                     "EndpointUrl", "RegistrationSecretHash"}
            -> INTERNAL_SERVER_ERROR

\* ApiErrorKind::status
Status(e) ==
    CASE e.kind \in {"PayloadError", "Router"} -> e.inner.status
      [] e.kind \in {"Validation", "InvalidEncryption", "NoTTL",
                     "InvalidRouterType", "InvalidRouterToken",
                     "InvalidMessageId"} -> BAD_REQUEST
      [] e.kind \in {"VapidError", "Jwt", "TokenHashValidation",
                     "InvalidAuthentication", "InvalidLocalAuth"} -> UNAUTHORIZED
      [] e.kind \in {"InvalidToken", "InvalidApiVersion"} -> NOT_FOUND
      [] e.kind \in {"NoUser", "NoSubscription"} -> GONE
      [] e.kind = "LogCheck" -> IM_A_TEAPOT
      [] e.kind \in {"General", "Io", "Metrics", "Database", "EndpointUrl",
                     "RegistrationSecretHash"} -> INTERNAL_SERVER_ERROR

\* ApiErrorKind::is_sentry_event
IsSentryEvent(e) ==
    ~ \/ e.kind \in {"NoTTL", "InvalidEncryption"}
      \/ e.kind \in {"VapidError", "Jwt", "TokenHashValidation",
                     "InvalidAuthentication", "InvalidLocalAuth"}
      \/ e.kind \in {"NoUser", "NoSubscription"}
      \/ (e.kind = "Router" /\ e.inner.too_much_data)

\* ApiErrorKind::errno
Errno(e) ==
    CASE e.kind \in {"Router", "Validation"} -> e.inner.errno
      [] e.kind \in {"InvalidToken", "InvalidApiVersion"} -> Some(102)
      [] e.kind = "NoUser" -> Some(103)
      [] e.kind = "PayloadError" /\ e.inner.overflow -> Some(104)
      [] e.kind = "NoSubscription" -> Some(106)
      [] e.kind = "InvalidRouterType" -> Some(108)
      [] e.kind \in {"VapidError", "TokenHashValidation", "Jwt",
                     "InvalidAuthentication", "InvalidLocalAuth"} -> Some(109)
      [] e.kind = "InvalidEncryption" -> Some(110)
      [] e.kind = "NoTTL" -> Some(111)
      [] e.kind = "LogCheck" -> Some(999)
      [] OTHER -> NoneV

\* Serialize for ApiError: the code and the error number of the body
Serialize(e) == [code |-> Status(e), errno |-> Errno(e)]

\* ResponseError::error_response
ErrorResponse(e) ==
    [status |-> Status(e),
     headers |-> IF Status(e) = 410 THEN {"Cache-Control"} ELSE {},
     body |-> Serialize(e)]

ErrorInit == errors = <<>>

\* an ApiError leaves a handler and is rendered as the response
Respond(e) ==
    /\ Len(errors) < MaxErrors
    /\ errors' = Append(errors, [op |-> "response", kind |-> e,
                                 response |-> ErrorResponse(e)])
    /\ UNCHANGED <<dvars, nvars>>

\* an ApiError is looked at for reporting
Report(e) ==
    /\ Len(errors) < MaxErrors
    /\ errors' = Append(errors, [op |-> "report", kind |-> e,
                                 event |-> IsSentryEvent(e)])
    /\ UNCHANGED <<dvars, nvars>>

DoRespond == \E e \in ApiErrorKind : Respond(e)

DoReport == \E e \in ApiErrorKind : Report(e)

-----------------------------------------------------------------------------
(* Specifications *)

vars == <<dvars, nvars, evars>>

\* the dispatcher, on any of the connections
Init ==
    /\ \E strm \in Streams : DispatchNew(strm)
    /\ trickle \in BOOLEAN
    /\ NotifInit
    /\ ErrorInit

Next == DoPoll \/ PeerClose \/ DropDispatch

Spec == Init /\ [][Next]_vars

\* a call of poll that reads at least one byte
ReadSome == \E rs \in ReadySeqs : rs # <<>> /\ Poll(rs)

\* the peer's bytes arrive and the reactor polls the task again when they
\* do; the connections are those of a peer that sends an Upgrade head
LiveInit == Init /\ stream \in UpgradeStreams

LiveSpec == LiveInit /\ [][Next]_vars /\ WF_vars(ReadSome)

\* the endpoint's notifications
NotifStart == DispatchNew(<<>>) /\ trickle = FALSE /\ NotifInit /\ ErrorInit

NotifNext == Tick \/ DoBuild \/ RotateKey \/ RemoveRetiredKey

NotifSpec == NotifStart /\ [][NotifNext]_vars

\* the endpoint's errors
ErrorNext == DoRespond \/ DoReport

ErrorSpec == NotifStart /\ [][ErrorNext]_vars

-----------------------------------------------------------------------------
(* Properties of the dispatcher *)

HasUpgrade(req) == \E i \in 1..Len(req.headers) : req.headers[i] = Upgrade

IsWebsocket == outcome = "Classified" /\ kind = "Websocket"

\* a well-formed request head with an Upgrade header, read a byte at a time
TrickledUpgrade == stream \in UpgradeStreams /\ trickle

\* C1: when a well-formed request head with an Upgrade header arrives one
\* byte per read and no read returns 0, the future is pending or has
\* resolved to Websocket at every moment, never to another type or to a
\* failure, and it does resolve to Websocket (unless the peer closes or the
\* future is dropped first).
C1_TrickledUpgradeResolves ==
    /\ [](TrickledUpgrade /\ ~peerClosed => outcome = "Buffering" \/ IsWebsocket)
    /\ (TrickledUpgrade ~> (IsWebsocket \/ peerClosed \/ dropped))

C1_Witness ==
    /\ TrickledUpgrade
    /\ ~peerClosed
    /\ IsWebsocket
    /\ stream = Req(P_status, H_host \o H_upgrade, <<>>)
    /\ delivered[1].bytes = stream

\* C2: the buffer is the bytes read from the socket so far, in the order of
\* their arrival, and what is handed downstream on classification is all of
\* them, the bytes read past the end of the request head included.
C2_BufferIsAllBytesRead ==
    /\ rx = SubSeq(stream, 1, Len(rx))
    /\ outcome # "Classified" => data = rx
    /\ outcome = "Classified" => Len(delivered) = 1 /\ delivered[1].bytes = rx

C2_Witness ==
    /\ outcome = "Classified"
    /\ Len(delivered[1].bytes) > HeadLen(stream)

\* C3: once the bytes read form a complete request head with a header
\* named Upgrade, the connection is classified Websocket, whatever the path.
C3_UpgradeIsWebsocket ==
    LET req == Parse(rx) IN
    req.status = "Complete" /\ HasUpgrade(req) =>
        IsWebsocket /\ Len(delivered) = 1 /\ delivered[1].ty = "Websocket"

C3_Witness ==
    /\ IsWebsocket
    /\ Parse(rx).path = P_lbheartbeat
    /\ HasUpgrade(Parse(rx))

PathTable == {P_status, P_heartbeat, P_lbheartbeat, P_version, P_errcrit, P_error}

IsClassified(ty) ==
    outcome = "Classified" /\ kind = ty /\ Len(delivered) = 1 /\ delivered[1].ty = ty

\* C4: a complete request head without an Upgrade header is classified by
\* its path: /status and /__heartbeat__ as Status, /__lbheartbeat__ as
\* LBHeartBeat, /__version__ as Version, /v1/err/crit and /__error__ as
\* LogCheck; a path that neither is nor extends one of these, and a missing
\* path, fails with UnknownRequest and nothing is handed over.
C4_PathTable ==
    LET req == Parse(rx) IN
    /\ ClassifyPath(None) = "Unknown"
    /\ req.status = "Complete" /\ ~HasUpgrade(req) =>
        /\ req.path \in {P_status, P_heartbeat} => IsClassified("Status")
        /\ req.path = P_lbheartbeat => IsClassified("LBHeartBeat")
        /\ req.path = P_version => IsClassified("Version")
        /\ req.path \in {P_errcrit, P_error} => IsClassified("LogCheck")
        /\ (\A e \in PathTable : ~StartsWith(req.path, e)) =>
              outcome = "Failed" /\ reason = "UnknownRequest" /\ delivered = <<>>

C4_Witness ==
    /\ outcome = "Failed"
    /\ reason = "UnknownRequest"
    /\ Parse(rx).path = P_foo
    /\ ~HasUpgrade(Parse(rx))

\* C5: a read that returns 0 before a complete head is buffered ends the
\* future with the early-eof error, whatever is in the buffer, and nothing
\* is handed over.
C5_ZeroReadIsEarlyEof ==
    eofRead =>
        /\ outcome = "Failed"
        /\ reason = "EarlyEof"
        /\ kind = None
        /\ socket = "Some"
        /\ delivered = <<>>

C5_Witness ==
    /\ eofRead
    /\ peerClosed
    /\ rx # <<>>
    /\ data = rx
    /\ reason = "EarlyEof"

\* C6: a connection is handed downstream at most once, and only as the
\* classification of a buffer that parses as a complete head; a pending, a
\* failed and a dropped future have handed over nothing.
C6_NoHalfClassifiedHandoff ==
    /\ Len(delivered) <= 1
    /\ outcome \in {"Buffering", "Failed"} => delivered = <<>>
    /\ dropped => delivered = <<>>
    /\ delivered # <<>> =>
          /\ outcome = "Classified"
          /\ socket = None
          /\ kind = delivered[1].ty
          /\ delivered[1].ty \in RequestType
          /\ Parse(delivered[1].bytes).status = "Complete"
          /\ delivered[1].ty = Classify(Parse(delivered[1].bytes))

C6_Witness ==
    /\ dropped
    /\ rx # <<>>
    /\ outcome = "Buffering"
    /\ delivered = <<>>

\* the parse of the first n bytes read
ParseAt(n) == Parse(SubSeq(rx, 1, n))

\* what holds of the reads and the parses of the last call of poll
ReadsAndParses ==
    \* every read that returned bytes was followed by a parse, and nothing
    \* else was parsed; the last parse was the one of all the bytes read
    /\ Len(parsed) = nread
    /\ nread > 0 => parsed[nread] = ParseAt(Len(rx)).status
    \* a read followed a parse only when the parse was Partial
    /\ \A i \in 1..(nread - 1) : parsed[i] = "Partial"
    \* while the future is pending, what was read is no complete head yet
    /\ outcome = "Buffering" => ParseAt(Len(rx)).status = "Partial"
    \* the head was complete at the last read, which is the last byte read,
    \* and the answer is the one of the bytes buffered then
    /\ (outcome = "Classified" \/ reason = "UnknownRequest") =>
          /\ nread > 0
          /\ parsed[nread] = "Complete"
          /\ ParseAt(Len(rx)).status = "Complete"
          /\ outcome = "Classified" =>
                /\ kind = Classify(ParseAt(Len(rx)))
                /\ delivered = <<[bytes |-> rx, ty |-> kind]>>
          /\ reason = "UnknownRequest" =>
                Classify(ParseAt(Len(rx))) = "Unknown"

\* C13: every read that returns bytes is followed by a parse of the buffer;
\* a further read happens only after a Partial parse, so the reads end with
\* the first one after which the head is complete, and no byte is read
\* after it; the request type, or the unknown request, is decided from the
\* bytes buffered at that read.
C13_ReadsUntilComplete ==
    /\ []ReadsAndParses
    /\ [][outcome # "Buffering" => UNCHANGED <<rx, nread, parsed>>]_vars

C13_Witness ==
    /\ outcome = "Classified"
    /\ nread = 2
    /\ parsed = <<"Partial", "Complete">>
    /\ Len(rx) < Len(stream)

\* the error of the parse of the first n bytes read, or None
ParseErrAt(n) == ParseFrom(PsInit, SubSeq(rx, 1, n), 1).err

\* what holds of a parse error
ParseErrors ==
    \* bytes read that are no beginning of a head have failed the future
    /\ ParseAt(Len(rx)).status = "Error" =>
          outcome = "Failed" /\ reason = "ParseError"
    \* the failure is the one of the last read of the call, the first read
    \* after which the parse fails; nothing was handed over and no request
    \* type was given; whatever else the peer sends, the bytes are no head
    /\ reason = "ParseError" =>
          /\ outcome = "Failed"
          /\ nread > 0
          /\ Len(parsed) = nread
          /\ parsed[nread] = "Error"
          /\ ParseAt(Len(rx)).status = "Error"
          /\ \A i \in 1..(nread - 1) : parsed[i] = "Partial"
          /\ delivered = <<>>
          /\ kind = None
          /\ socket = "Some"
          /\ \A m \in Len(rx)..Len(stream) :
                Parse(SubSeq(stream, 1, m)).status = "Error"
    \* a head that is handed over has no more than MaxHeaders headers, and
    \* the failure of one with more comes with all the slots filled
    /\ outcome = "Classified" =>
          Len(ParseAt(Len(rx)).headers) <= MaxHeaders
    /\ (reason = "ParseError" /\ ParseErrAt(Len(rx)) = "TooManyHeaders") =>
          Len(ParseFrom(PsInit, rx, 1).names) = MaxHeaders

\* C15: bytes that are no beginning of a request head, and a head with more
\* than 32 headers, an Upgrade header among them or not, fail the future with
\* the parse error at the first parse that finds it: no byte is read after
\* it, nothing is handed over and no request type is given.
C15_ParseErrorFails ==
    /\ []ParseErrors
    /\ [][reason = "ParseError" =>
            UNCHANGED <<rx, data, outcome, kind, delivered, socket>>]_vars

C15_Witness ==
    /\ reason = "ParseError"
    /\ outcome = "Failed"
    /\ ParseErrAt(Len(rx)) = "TooManyHeaders"
    /\ \E n \in 1..Len(rx) : SubSeq(rx, n, n + Len(Upgrade) - 1) = Upgrade
    /\ Len(rx) < Len(stream)
    /\ delivered = <<>>

\* the result of the dispatcher that is fed the bytes s in one read, and
\* then a read of 0 if the peer has closed after them
ResultOf(s, closed) ==
    The({ IF req.status = "Error" THEN <<"Failed", None, "ParseError">>
          ELSE IF req.status = "Partial"
          THEN IF closed THEN <<"Failed", None, "EarlyEof">>
               ELSE <<"Buffering", None, None>>
          ELSE IF Classify(req) = "Unknown"
          THEN <<"Failed", None, "UnknownRequest">>
          ELSE <<"Classified", Classify(req), None>> : req \in {Parse(s)} })

\* the bytes the peer sends before the end of the stream: it closes with
\* what the dispatcher has read, or has not closed
SentBytes == IF peerClosed THEN rx ELSE stream

\* C16: the result of the dispatcher, the request type or the reason of the
\* failure, is that of the dispatcher that gets the same bytes, with the
\* same end of stream, in a single read: it is the same however the bytes
\* are split into reads; and a head that is complete in the buffer has the
\* same path and the same headers with the bytes that follow it.
C16_ChunkingIndependent ==
    /\ outcome # "Buffering" =>
          <<outcome, kind, reason>> = ResultOf(SentBytes, peerClosed)
    /\ outcome = "Classified" =>
          /\ Parse(stream).status = "Complete"
          /\ Parse(stream).path = ParseAt(Len(rx)).path
          /\ Parse(stream).headers = ParseAt(Len(rx)).headers

C16_Witness ==
    /\ outcome = "Classified"
    /\ ~trickle
    /\ nread = 2
    /\ Len(rx) < Len(stream)
    /\ ParseAt(Len(rx) - 1).status = "Complete"
    /\ <<outcome, kind, reason>> = ResultOf(stream, FALSE)

-----------------------------------------------------------------------------
(* Properties of the notifications *)

Range(f) == {f[i] : i \in DOMAIN f}

BaseKeys == {"channelID", "version", "ttl", "topic", "timestamp"}

\* the identity a notification's fields name
IdentityOf(n) ==
    IF n.headers.topic # NoneV
    THEN WithTopic(n.subscription.uaid, n.subscription.channel_id,
                   n.headers.topic[1])
    ELSE WithoutTopic(n.subscription.uaid, n.subscription.channel_id,
                      n.sort_key_timestamp)

\* C7: the delivery view of a notification has the keys channelID, version
\* (the message_id), ttl, topic and timestamp, and has data and headers as
\* well exactly when the request had a body; with an empty body it has
\* neither.
C7_DeliveryViewKeys ==
    \A i \in 1..Len(notifs) :
        LET view == SerializeForDelivery(notifs[i])
            body == issued[i].req.body
        IN  /\ BaseKeys \subseteq DOMAIN view
            /\ DOMAIN view \subseteq BaseKeys \cup {"data", "headers"}
            /\ view["version"] = notifs[i].message_id
            /\ (notifs[i].data # NoneV) <=> (body # <<>>)
            /\ body # <<>> => {"data", "headers"} \subseteq DOMAIN view
            /\ body = <<>> => DOMAIN view = BaseKeys

C7_Witness ==
    \E i, j \in 1..Len(notifs) :
        /\ issued[i].req.body = <<>>
        /\ issued[i].req.encoding # NoneV
        /\ DOMAIN SerializeForDelivery(notifs[i]) = BaseKeys
        /\ issued[j].req.body # <<>>
        /\ DOMAIN SerializeForDelivery(notifs[j]) = BaseKeys \cup {"data", "headers"}

C9_KeyRotation ==
    \A i \in 1..Len(notifs) :
        LET token == notifs[i].message_id
            k1 == Head(issued[i].keys)
        IN  /\ k1 \in Range(keys) =>
                  /\ IsOk(MessageIdDecrypt(keys, token))
                  /\ MessageIdDecrypt(keys, token)
                        = MessageIdDecrypt(issued[i].keys, token)
            /\ k1 \notin Range(keys) =>
                  MessageIdDecrypt(keys, token) = Err("InvalidToken")
            /\ \A k \in 1..MaxKeys : IsOk(FernetDecrypt(<<k>>, token)) <=> k = k1

C9_Witness ==
    /\ keys = <<2, 1>>
    /\ \E i, j \in 1..Len(notifs) :
          /\ issued[i].keys = <<1>>
          /\ issued[j].keys = <<2, 1>>
          /\ IsOk(MessageIdDecrypt(keys, notifs[i].message_id))
          /\ IsOk(FernetDecrypt(<<2>>, notifs[j].message_id))

\* C10: two notifications for the same user, channel and topic have
\* different message ids that decrypt to the same identity, the WithTopic of
\* that user, channel and topic, whenever they were built.
C10_SameTopicSameIdentity ==
    \A i, j \in 1..Len(notifs) :
        ( /\ i < j
          /\ notifs[i].subscription = notifs[j].subscription
          /\ notifs[i].headers.topic # NoneV
          /\ notifs[i].headers.topic = notifs[j].headers.topic ) =>
            /\ notifs[i].message_id # notifs[j].message_id
            /\ MessageIdDecrypt(issued[i].keys, notifs[i].message_id)
                  = MessageIdDecrypt(issued[j].keys, notifs[j].message_id)
            /\ MessageIdDecrypt(issued[i].keys, notifs[i].message_id)
                  = Ok(WithTopic(notifs[i].subscription.uaid,
                                 notifs[i].subscription.channel_id,
                                 notifs[i].headers.topic[1]))

C10_Witness ==
    \E i, j \in 1..Len(notifs) :
        /\ i < j
        /\ notifs[i].subscription = notifs[j].subscription
        /\ notifs[i].headers.topic = Some(Topic1)
        /\ notifs[j].headers.topic = Some(Topic1)
        /\ notifs[i].sort_key_timestamp # notifs[j].sort_key_timestamp
        /\ notifs[i].timestamp # notifs[j].timestamp
        /\ notifs[i].message_id # notifs[j].message_id

\* C11: any two notifications without a topic built for the same user and
\* channel carry different sort_key_timestamp values, and so different
\* WithoutTopic identities, also when they are built within the same second
\* or by requests handled at the same time.
C11_StrictOrdering ==
    \A i, j \in 1..Len(notifs) :
        ( /\ i < j
          /\ notifs[i].subscription = notifs[j].subscription
          /\ notifs[i].headers.topic = NoneV
          /\ notifs[j].headers.topic = NoneV ) =>
            /\ notifs[i].sort_key_timestamp # notifs[j].sort_key_timestamp
            /\ IdentityOf(notifs[i]) # IdentityOf(notifs[j])

\* C14: the message id of a notification encodes WithTopic of the user, the
\* channel and the topic exactly when the request carries a topic; otherwise
\* it encodes WithoutTopic of the user, the channel and the notification's
\* own sort_key_timestamp, the milliseconds read once, which is neither its
\* timestamp in seconds nor another reading of the clock.
C14_IdentityVariant ==
    \A i \in 1..Len(notifs) :
        LET n == notifs[i]
            req == issued[i].req
            id == MessageIdDecrypt(issued[i].keys, n.message_id)
        IN  /\ IsOk(id)
            /\ id.ok.variant = "WithTopic" <=> req.topic # NoneV
            /\ id.ok.uaid = req.subscription.uaid
            /\ id.ok.channel_id = req.subscription.channel_id
            /\ req.topic # NoneV => id.ok.topic = req.topic[1]
            /\ req.topic = NoneV =>
                  /\ id.ok.variant = "WithoutTopic"
                  /\ id.ok.timestamp = n.sort_key_timestamp
                  /\ id.ok.timestamp # n.timestamp
                  /\ n.sort_key_timestamp \in ClockStart..clock

C14_Witness ==
    \E i, j \in 1..Len(notifs) :
        /\ issued[i].req.topic = NoneV
        /\ notifs[i].timestamp = SecSinceEpoch(ClockStart)
        /\ notifs[i].sort_key_timestamp = ClockStart + 1
        /\ MessageIdDecrypt(issued[i].keys, notifs[i].message_id).ok.timestamp
              = ClockStart + 1
        /\ issued[j].req.topic # NoneV
        /\ MessageIdDecrypt(issued[j].keys, notifs[j].message_id).ok.variant
              = "WithTopic"

\* C17: the storage record of a notification has its channel_id, its
\* message_id as version, its ttl, topic, timestamp and data, and
\* Some(sort_key_timestamp) as sortkey_timestamp; its headers are None
\* exactly when the map of the headers is empty and Some of that map
\* otherwise, with or without data: the record of a notification without a
\* body has the headers the request gave, which its delivery view has not.
C17_StorageRecord ==
    \A i \in 1..Len(notifs) :
        LET n == notifs[i]
            req == issued[i].req
            rec == ToStorage(n)
            given == {x \in {"encoding", "crypto_key"} : req[x] # NoneV}
        IN  /\ rec.channel_id = req.subscription.channel_id
            /\ rec.version = n.message_id
            /\ rec.ttl = req.ttl
            /\ rec.topic = req.topic
            /\ rec.timestamp = n.timestamp
            /\ rec.data = n.data
            /\ rec.sortkey_timestamp = Some(n.sort_key_timestamp)
            /\ rec.headers = NoneV <=> given = {}
            /\ given # {} =>
                  /\ DOMAIN rec.headers[1] = given
                  /\ \A x \in given : rec.headers[1][x] = req[x][1]

C17_Witness ==
    \E i, j \in 1..Len(notifs) :
        /\ issued[i].req.body = <<>>
        /\ notifs[i].data = NoneV
        /\ ToStorage(notifs[i]).headers = Some(Insert(EmptyMap, "encoding", "aes128gcm"))
        /\ "headers" \notin DOMAIN SerializeForDelivery(notifs[i])
        /\ issued[j].req.ttl = 0
        /\ ToStorage(notifs[j]).headers = NoneV
        /\ ToStorage(notifs[j]).ttl = 0

-----------------------------------------------------------------------------
(* Properties of the errors *)

\* C12: an InvalidToken and an InvalidMessageId are answered with a status
\* from 400 to 499, never a success and never a server error; a LogCheck is
\* answered with 418 and is an event to report.
C12_ClientErrorsAndLogCheck ==
    \A i \in 1..Len(errors) :
        LET x == errors[i] IN
        /\ (x.op = "response" /\ x.kind.kind \in {"InvalidToken", "InvalidMessageId"})
              => /\ x.response.status \in 400..499
                 /\ x.response.body.code = x.response.status
        /\ (x.op = "response" /\ x.kind.kind = "LogCheck")
              => x.response.status = 418 /\ x.response.body.code = 418
        /\ (x.op = "report" /\ x.kind.kind = "LogCheck") => x.event

C12_Witness ==
    \E i, j \in 1..Len(errors) :
        /\ errors[i].op = "response" /\ errors[i].kind.kind = "LogCheck"
        /\ errors[i].response.status = IM_A_TEAPOT
        /\ errors[j].op = "report" /\ errors[j].kind.kind = "LogCheck"
        /\ errors[j].event

=============================================================================
